---- MODULE Spec2Model ----
(***************************************************************************)
(* Model of hfcode (src/src/main.rs): Huffman compression of a byte file   *)
(* into a packed bit stream plus a textual code table, and decompression   *)
(* of the packed stream with the code table read back from its file.       *)
(*                                                                         *)
(* Option<T> is a sequence of length 0 (None) or 1 (Some).  A HashMap is a *)
(* function; the order in which a HashMap is iterated is not fixed by the  *)
(* program and is a nondeterministic choice of the actions that iterate.   *)
(***************************************************************************)
EXTENDS Integers, Sequences, FiniteSets, TLC

\* Longest input file of the compress run.
MaxLen == 4
\* Longest bit sequence handed to the packer on its own.
MaxBits == 9
\* Longest code-table file of the decompress run.
MaxFile == 5

\* Byte values the input file of the compress run is drawn from:
\* NUL, ':', 'a' and a byte above 127.
Symbols == {0, 58, 97, 200}
\* Byte values the code-table file of the decompress run is drawn from:
\* '\n', '0', '1', '2', ':', 'a'.
FileBytes == {10, 48, 49, 50, 58, 97}
\* Packed files offered to the decompress run.
PackedFiles == {<<>>, <<64>>, <<128>>}

VARIABLES
    pc,         \* position of the run in main
    buff,       \* main: buff (the bytes read from the input file)
    freq,       \* main: freq
    trees,      \* create_huffman_tree: trees (the forest)
    root,       \* main: trees (the tree create_huffman_tree returned), an Option
    codes,      \* main: codes (encode table, or decode table when decompressing)
    code_file,  \* content of the code-table file
    bits,       \* the logical bit sequence (compress: before chunks(8); decompress: after d2b)
    stream,     \* code_original_file's result / the packed file
    decoded,    \* main: decode (the symbols decode returned)
    output,     \* the output file: whether it was opened (truncated) and its content
    err         \* how the run failed, "none" while it has not

vars == <<pc, buff, freq, trees, root, codes, code_file, bits, stream, decoded, output, err>>

----------------------------------------------------------------------------
\* Generic helpers

Range(s) == {s[i] : i \in DOMAIN s}

Front(s) == SubSeq(s, 1, Len(s) - 1)

\* All sequences over S of length at most n.
SeqsUpTo(S, n) == UNION {[1..k -> S] : k \in 0..n}

\* All orders in which the elements of a finite set can be visited.
Orders(S) == {s \in [1..Cardinality(S) -> S] : \A i, j \in DOMAIN s : i # j => s[i] # s[j]}

RECURSIVE Pow2(_)
Pow2(n) == IF n = 0 THEN 1 ELSE 2 * Pow2(n - 1)

RECURSIVE Flatten(_)
Flatten(ss) == IF ss = <<>> THEN <<>> ELSE Head(ss) \o Flatten(Tail(ss))

EmptyMap == [x \in {} |-> 0]

\* HashMap::insert: the new value replaces an old one under the same key.
Insert(m, k, v) == [x \in DOMAIN m \cup {k} |-> IF x = k THEN v ELSE m[x]]

----------------------------------------------------------------------------
\* Inner and HuffmanTree

Inner_new(ch, weight) == [ch |-> ch, weight |-> weight]

Inner_add(self, other) == [ch |-> 0, weight |-> self.weight + other.weight]

HuffmanTree_new(inner) == [inner |-> inner, left_child |-> <<>>, right_child |-> <<>>]

merge_hufftree(tree1, tree2) ==
    [inner |-> Inner_add(tree1.inner, tree2.inner),
     left_child |-> <<tree1>>,
     right_child |-> <<tree2>>]

\* Mutant of SortKey: the key without its negation, which sorts the forest
\* by ascending weight.
SortKeyAscending(x) == x.inner.weight

\* The key of trees.sort_by_key.
SortKey(x) == 0 - x.inner.weight

\* sort_by_key is a stable sort by ascending key: element i of s comes
\* behind the elements of smaller key and the earlier elements of equal key.
SortedPosition(s, i) ==
    1 + Cardinality({j \in DOMAIN s : \/ SortKey(s[j]) < SortKey(s[i])
                                       \/ (SortKey(s[j]) = SortKey(s[i]) /\ j < i)})

sort_by_key(s) ==
    [p \in 1..Len(s) |-> s[CHOOSE i \in DOMAIN s : SortedPosition(s, i) = p]]

\* main, lines 95-103: the frequency table of buff.
CountFreq(b) ==
    [ch \in Range(b) |-> Cardinality({i \in DOMAIN b : b[i] = ch})]

\* Mutant of InitialForest: the empty tree is not inserted.
InitialForestNoEmptyTree(f, ord) ==
    sort_by_key([i \in 1..Len(ord) |-> HuffmanTree_new(Inner_new(ord[i], f[ord[i]]))])

\* create_huffman_tree, lines 166-172: one singleton tree per entry in
\* the iteration order ord, then the empty tree, then the sort.
InitialForest(f, ord) ==
    sort_by_key([i \in 1..Len(ord) |-> HuffmanTree_new(Inner_new(ord[i], f[ord[i]]))]
                \o <<HuffmanTree_new(Inner_new(0, 0))>>)

\* create_huffman_tree, lines 178-185: one iteration of the loop.
MergeForest(ts) ==
    LET tree1 == ts[Len(ts)]
        rest1 == Front(ts)
    IN IF rest1 = <<>>
       THEN sort_by_key(rest1)
       ELSE LET tree2 == rest1[Len(rest1)]
                rest2 == Front(rest1)
            IN sort_by_key(Append(rest2, merge_hufftree(tree1, tree2)))

----------------------------------------------------------------------------
\* Code table, packing, unpacking, decoding

\* Mutant of generate_huffman_code: the 0 pushed for the left child is not
\* popped before the 1 is pushed for the right child.
RECURSIVE generate_huffman_code_no_pop(_, _, _)
generate_huffman_code_no_pop(code, key_code, node) ==
    IF node.inner.ch # 0
    THEN Insert(key_code, node.inner.ch, code)
    ELSE LET hasLeft == node.left_child # <<>>
             code1 == IF hasLeft THEN Append(code, 0) ELSE code
             key_code1 == IF hasLeft
                          THEN generate_huffman_code_no_pop(code1, key_code,
                                                            node.left_child[1])
                          ELSE key_code
         IN IF node.right_child # <<>>
            THEN generate_huffman_code_no_pop(Append(code1, 1), key_code1,
                                              node.right_child[1])
            ELSE key_code1

\* generate_huffman_code, lines 144-162, returning key_code as it is left.
RECURSIVE generate_huffman_code(_, _, _)
generate_huffman_code(code, key_code, node) ==
    IF node.inner.ch # 0
    THEN Insert(key_code, node.inner.ch, code)
    ELSE LET hasLeft == node.left_child # <<>>
             code1 == IF hasLeft THEN Append(code, 0) ELSE code
             key_code1 == IF hasLeft
                          THEN generate_huffman_code(code1, key_code, node.left_child[1])
                          ELSE key_code
         IN IF node.right_child # <<>>
            THEN generate_huffman_code(Append(Front(code1), 1), key_code1,
                                       node.right_child[1])
            ELSE key_code1

\* write_code2file, lines 198-206: one record per entry, in the iteration
\* order ord: the symbol's byte, ':', the code's digits, '\n'.
CodeRecord(ch, code) == <<ch, 58>> \o [i \in 1..Len(code) |-> code[i] + 48] \o <<10>>

write_code2file(cs, ord) == Flatten([i \in 1..Len(ord) |-> CodeRecord(ord[i], cs[ord[i]])])

\* code_original_file, lines 212-215: the codes of the bytes of buff, in order.
CodeBits(b, cs) == Flatten([i \in 1..Len(b) |-> cs[b[i]]])

\* slice::chunks(8).
RECURSIVE chunks(_)
chunks(s) ==
    IF s = <<>> THEN <<>>
    ELSE IF Len(s) <= 8 THEN <<s>>
    ELSE <<SubSeq(s, 1, 8)>> \o chunks(SubSeq(s, 9, Len(s)))

\* Mutant of PackSum: bit i of the group goes to bit i of the byte.
RECURSIVE PackSumLsbFirst(_, _)
PackSumLsbFirst(byte, n) ==
    IF n = 0 THEN 0 ELSE PackSumLsbFirst(byte, n - 1) + byte[n] * Pow2(n - 1)

\* code_original_file, lines 218-222, without the width of u8: the sum
\* of byte[i] * 2^(7 - i) for i in 0..byte.len().
RECURSIVE PackSum(_, _)
PackSum(byte, n) ==
    IF n = 0 THEN 0 ELSE PackSum(byte, n - 1) + byte[n] * Pow2(7 - (n - 1))

\* The u8 the closure returns; the additions overflow iff the sum exceeds 255.
PackByte(byte) == PackSum(byte, Len(byte)) % 256

PackOverflows(bs) == \E i \in 1..Len(chunks(bs)) : PackSum(chunks(bs)[i], Len(chunks(bs)[i])) > 255

PackBits(bs) == [i \in 1..Len(chunks(bs)) |-> PackByte(chunks(bs)[i])]

\* d2b, lines 250-263: the 8 bits of d, the bit of weight 128 first.
d2b(d) == [i \in 1..8 |-> IF (d \div Pow2(8 - i)) % 2 # 0 THEN 1 ELSE 0]

\* main, line 129.
Expand(bytes) == Flatten([i \in 1..Len(bytes) |-> d2b(bytes[i])])

\* decode, lines 266-275: the loop from the state (window, result) over b.
RECURSIVE decode_loop(_, _, _, _)
decode_loop(cs, b, window, result) ==
    IF b = <<>> THEN [result |-> result, window |-> window]
    ELSE LET w == Append(window, Head(b))
         IN IF w \in DOMAIN cs
            THEN decode_loop(cs, Tail(b), <<>>, Append(result, cs[w]))
            ELSE decode_loop(cs, Tail(b), w, result)

decode(cs, b) == decode_loop(cs, b, <<>>, <<>>).result

\* The decode table that holds (code -> symbol) for each (symbol -> code).
Inverse(cs) ==
    [c \in {cs[s] : s \in DOMAIN cs} |-> CHOOSE s \in DOMAIN cs : cs[s] = c]

----------------------------------------------------------------------------
\* Reading the code table back

\* Index of the first element of s equal to b, 0 when there is none.
Find(s, b) ==
    IF \E i \in DOMAIN s : s[i] = b
    THEN CHOOSE i \in DOMAIN s : s[i] = b /\ \A j \in 1..(i - 1) : s[j] # b
    ELSE 0

\* BufRead::lines, line 232, before the UTF-8 check: the bytes of each line
\* without its "\n" or "\r\n"; a last line need not be terminated.
RECURSIVE lines(_)
lines(bytes) ==
    IF bytes = <<>> THEN <<>>
    ELSE LET n == Find(bytes, 10)
         IN IF n = 0 THEN <<bytes>>
            ELSE LET l == SubSeq(bytes, 1, n - 1)
                     stripped == IF l # <<>> /\ l[Len(l)] = 13 THEN Front(l) ELSE l
                 IN <<stripped>> \o lines(SubSeq(bytes, n + 1, Len(bytes)))

IsCont(b) == b >= 128 /\ b <= 191

\* The UTF-8 check of BufRead::lines (line 233 returns its error): the
\* code points of the bytes, or ok = FALSE when they are not UTF-8.
RECURSIVE from_utf8(_)
from_utf8(bs) ==
    IF bs = <<>> THEN [ok |-> TRUE, chars |-> <<>>]
    ELSE LET b == bs[1]
             n == IF b < 128 THEN 1
                  ELSE IF b >= 194 /\ b <= 223 THEN 2
                  ELSE IF b >= 224 /\ b <= 239 THEN 3
                  ELSE IF b >= 240 /\ b <= 244 THEN 4
                  ELSE 0
             bad == [ok |-> FALSE, chars |-> <<>>]
         IN IF n = 0 \/ Len(bs) < n \/ \E i \in 2..n : ~IsCont(bs[i])
            THEN bad
            ELSE LET cp == CASE n = 1 -> b
                             [] n = 2 -> (b - 192) * 64 + (bs[2] - 128)
                             [] n = 3 -> (b - 224) * 4096 + (bs[2] - 128) * 64 + (bs[3] - 128)
                             [] n = 4 -> (b - 240) * 262144 + (bs[2] - 128) * 4096
                                         + (bs[3] - 128) * 64 + (bs[4] - 128)
                     valid == CASE n = 1 -> TRUE
                                [] n = 2 -> TRUE
                                [] n = 3 -> cp >= 2048 /\ ~(cp >= 55296 /\ cp <= 57343)
                                [] n = 4 -> cp >= 65536 /\ cp <= 1114111
                     rest == from_utf8(SubSeq(bs, n + 1, Len(bs)))
                 IN IF ~valid \/ ~rest.ok THEN bad
                    ELSE [ok |-> TRUE, chars |-> <<cp>> \o rest.chars]

\* str::split(":"), line 234: the parts between the ':' characters.
RECURSIVE split(_)
split(s) ==
    LET n == Find(s, 58)
    IN IF n = 0 THEN <<s>>
       ELSE <<SubSeq(s, 1, n - 1)>> \o split(SubSeq(s, n + 1, Len(s)))

\* generate_code_table_from_file, lines 233-245: one line into codes.
\* kind is "Ok", "Err" (the function returns an error) or "panic" (an unwrap
\* of None).
ParseRecord(cs, raw) ==
    LET u == from_utf8(raw)
        line == split(u.chars)
    IN IF ~u.ok THEN [kind |-> "Err", codes |-> cs]
       ELSE IF Len(line[1]) # 1 THEN [kind |-> "Err", codes |-> cs]
       ELSE IF Len(line) < 2 THEN [kind |-> "panic", codes |-> cs]
       ELSE IF \E i \in 1..Len(line[2]) : line[2][i] \notin {48, 49}
            THEN [kind |-> "panic", codes |-> cs]
       ELSE [kind |-> "Ok",
             codes |-> Insert(cs, [i \in 1..Len(line[2]) |-> line[2][i] - 48],
                              line[1][1] % 256)]

RECURSIVE ParseRecords(_, _)
ParseRecords(cs, ls) ==
    IF ls = <<>> THEN [kind |-> "Ok", codes |-> cs]
    ELSE LET r == ParseRecord(cs, Head(ls))
         IN IF r.kind # "Ok" THEN r ELSE ParseRecords(r.codes, Tail(ls))

\* generate_code_table_from_file, lines 227-248, on the content of the file.
generate_code_table_from_file(bytes) == ParseRecords(EmptyMap, lines(bytes))

----------------------------------------------------------------------------
\* The compress run

Init ==
    /\ pc = "start"
    /\ buff \in SeqsUpTo(Symbols, MaxLen)
    /\ freq = EmptyMap
    /\ trees = <<>>
    /\ root = <<>>
    /\ codes = EmptyMap
    /\ code_file = <<>>
    /\ bits = <<>>
    /\ stream = <<>>
    /\ decoded = <<>>
    /\ output = [opened |-> FALSE, data |-> <<>>]
    /\ err = "none"

\* main, lines 92-103.
ReadInput ==
    /\ pc = "start"
    /\ freq' = CountFreq(buff)
    /\ pc' = "freq"
    /\ UNCHANGED <<buff, trees, root, codes, code_file, bits, stream, decoded, output, err>>

\* create_huffman_tree, lines 166-172.
BuildForest ==
    /\ pc = "freq"
    /\ \E ord \in Orders(DOMAIN freq) : trees' = InitialForest(freq, ord)
    /\ pc' = "loop"
    /\ UNCHANGED <<buff, freq, root, codes, code_file, bits, stream, decoded, output, err>>

\* create_huffman_tree, lines 174-186: an iteration that does not break.
MergeStep ==
    /\ pc = "loop"
    /\ Len(trees) # 1
    /\ trees' = MergeForest(trees)
    /\ UNCHANGED <<pc, buff, freq, root, codes, code_file, bits, stream, decoded, output, err>>

\* create_huffman_tree, lines 175-177 and 187: break and return the tree.
ReturnTree ==
    /\ pc = "loop"
    /\ Len(trees) = 1
    /\ root' = <<trees[Len(trees)]>>
    /\ trees' = Front(trees)
    /\ pc' = "tree"
    /\ UNCHANGED <<buff, freq, codes, code_file, bits, stream, decoded, output, err>>

\* main, lines 106-108.
GenerateCodes ==
    /\ pc = "tree"
    /\ codes' = generate_huffman_code(<<>>, EmptyMap, root[1])
    /\ root' = <<>>
    /\ pc' = "codes"
    /\ UNCHANGED <<buff, freq, trees, code_file, bits, stream, decoded, output, err>>

\* main, line 110.
WriteCodeFile ==
    /\ pc = "codes"
    /\ \E ord \in Orders(DOMAIN codes) : code_file' = write_code2file(codes, ord)
    /\ pc' = "coded"
    /\ UNCHANGED <<buff, freq, trees, root, codes, bits, stream, decoded, output, err>>

\* main, line 112: code_original_file panics on a byte that has no code.
CodeOriginalFile ==
    /\ pc = "coded"
    /\ IF \E i \in 1..Len(buff) : buff[i] \notin DOMAIN codes
       THEN /\ err' = "panic"
            /\ pc' = "failed"
            /\ UNCHANGED <<bits, stream>>
       ELSE /\ bits' = CodeBits(buff, codes)
            /\ IF PackOverflows(bits')
               THEN /\ err' = "overflow"
                    /\ pc' = "failed"
                    /\ UNCHANGED stream
               ELSE /\ stream' = PackBits(bits')
                    /\ pc' = "packed"
                    /\ UNCHANGED err
    /\ UNCHANGED <<buff, freq, trees, root, codes, code_file, decoded, output>>

\* main, lines 113-120.
WriteCompressed ==
    /\ pc = "packed"
    /\ output' = [opened |-> TRUE, data |-> stream]
    /\ pc' = "done"
    /\ UNCHANGED <<buff, freq, trees, root, codes, code_file, bits, stream, decoded, err>>

Next ==
    \/ ReadInput
    \/ BuildForest
    \/ MergeStep
    \/ ReturnTree
    \/ GenerateCodes
    \/ WriteCodeFile
    \/ CodeOriginalFile
    \/ WriteCompressed

Spec == Init /\ [][Next]_vars

\* main runs its statements one after the other: a step that can be taken
\* is taken.
FairSpec == Spec /\ WF_vars(Next)

----------------------------------------------------------------------------
\* The decompress run, from any code-table file and a packed file

InitDecompress ==
    /\ pc = "decompress"
    /\ code_file \in SeqsUpTo(FileBytes, MaxFile)
    /\ stream \in PackedFiles
    /\ buff = <<>>
    /\ freq = EmptyMap
    /\ trees = <<>>
    /\ root = <<>>
    /\ codes = EmptyMap
    /\ bits = <<>>
    /\ decoded = <<>>
    /\ output = [opened |-> FALSE, data |-> <<>>]
    /\ err = "none"

\* main, line 124.
ReadCodeTable ==
    /\ pc = "decompress"
    /\ LET r == generate_code_table_from_file(code_file)
       IN IF r.kind = "Ok"
          THEN /\ codes' = r.codes
               /\ pc' = "table"
               /\ UNCHANGED err
          ELSE /\ err' = (IF r.kind = "Err" THEN "ParseError" ELSE "panic")
               /\ pc' = "failed"
               /\ UNCHANGED codes
    /\ UNCHANGED <<buff, freq, trees, root, code_file, bits, stream, decoded, output>>

\* main, lines 126-131.
DecodePacked ==
    /\ pc = "table"
    /\ buff' = Expand(stream)
    /\ decoded' = decode(codes, buff')
    /\ pc' = "decoded"
    /\ UNCHANGED <<freq, trees, root, codes, code_file, bits, stream, output, err>>

\* main, lines 133-138.
WriteDecoded ==
    /\ pc = "decoded"
    /\ output' = [opened |-> TRUE, data |-> decoded]
    /\ pc' = "done"
    /\ UNCHANGED <<buff, freq, trees, root, codes, code_file, bits, stream, decoded, err>>

NextDecompress == ReadCodeTable \/ DecodePacked \/ WriteDecoded

SpecDecompress == InitDecompress /\ [][NextDecompress]_vars

----------------------------------------------------------------------------
\* Packing and unpacking on their own, from any sequence of code bits

InitPack ==
    /\ pc = "bits"
    /\ bits \in SeqsUpTo({0, 1}, MaxBits)
    /\ buff = <<>>
    /\ freq = EmptyMap
    /\ trees = <<>>
    /\ root = <<>>
    /\ codes = EmptyMap
    /\ code_file = <<>>
    /\ stream = <<>>
    /\ decoded = <<>>
    /\ output = [opened |-> FALSE, data |-> <<>>]
    /\ err = "none"

\* code_original_file, lines 216-224.
PackCodeBits ==
    /\ pc = "bits"
    /\ IF PackOverflows(bits)
       THEN /\ err' = "overflow"
            /\ pc' = "failed"
            /\ UNCHANGED stream
       ELSE /\ stream' = PackBits(bits)
            /\ pc' = "packed"
            /\ UNCHANGED err
    /\ UNCHANGED <<buff, freq, trees, root, codes, code_file, bits, decoded, output>>

\* main, line 129.
ExpandPacked ==
    /\ pc = "packed"
    /\ buff' = Expand(stream)
    /\ pc' = "expanded"
    /\ UNCHANGED <<freq, trees, root, codes, code_file, bits, stream, decoded, output, err>>

NextPack == PackCodeBits \/ ExpandPacked

SpecPack == InitPack /\ [][NextPack]_vars

----------------------------------------------------------------------------
\* Measures of trees, tables and files used by the properties

IsLeaf(t) == t.left_child = <<>> /\ t.right_child = <<>>

RECURSIVE LeafCount(_)
LeafCount(t) ==
    IF IsLeaf(t) THEN 1
    ELSE (IF t.left_child # <<>> THEN LeafCount(t.left_child[1]) ELSE 0)
         + (IF t.right_child # <<>> THEN LeafCount(t.right_child[1]) ELSE 0)

\* Leaves of weight 0 that carry no symbol.
RECURSIVE PlaceholderCount(_)
PlaceholderCount(t) ==
    IF IsLeaf(t) THEN (IF t.inner.weight = 0 /\ t.inner.ch = 0 THEN 1 ELSE 0)
    ELSE (IF t.left_child # <<>> THEN PlaceholderCount(t.left_child[1]) ELSE 0)
         + (IF t.right_child # <<>> THEN PlaceholderCount(t.right_child[1]) ELSE 0)

RECURSIVE InternalCount(_)
InternalCount(t) ==
    IF IsLeaf(t) THEN 0
    ELSE 1 + (IF t.left_child # <<>> THEN InternalCount(t.left_child[1]) ELSE 0)
           + (IF t.right_child # <<>> THEN InternalCount(t.right_child[1]) ELSE 0)

\* Every node has two children or none.
RECURSIVE IsStrict(_)
IsStrict(t) ==
    \/ IsLeaf(t)
    \/ /\ t.left_child # <<>>
       /\ t.right_child # <<>>
       /\ IsStrict(t.left_child[1])
       /\ IsStrict(t.right_child[1])

IsPrefix(a, b) == Len(a) <= Len(b) /\ SubSeq(b, 1, Len(a)) = a

SortedByWeight(ts) ==
    \A i \in 1..(Len(ts) - 1) : ts[i].inner.weight >= ts[i + 1].inner.weight

Zeros(n) == [i \in 1..n |-> 0]

CeilDiv8(n) == (n + 7) \div 8

HasCodes == pc \in {"codes", "coded", "packed", "done", "failed"}

HasCodeFile == pc \in {"coded", "packed", "done", "failed"}

HasStream == pc \in {"packed", "done"}

\* What decode makes of the packed stream with the inverse of the encode table.
Unpacked == decode_loop(Inverse(codes), Expand(stream), <<>>, <<>>)

----------------------------------------------------------------------------
\* The properties

\* C1: once the input is packed, decoding the d2b expansion of the packed
\* bytes with the inverse of the encode table gives back exactly the input.
C1_RoundTrip == HasStream => Unpacked.result = buff

\* C2: once the encode table is generated it has an entry for every byte of
\* the input, and code_original_file never unwraps a missing entry.
C2_EveryByteHasCode ==
    /\ HasCodes => \A i \in 1..Len(buff) : buff[i] \in DOMAIN codes
    /\ err # "panic"

\* C3: the zero bits that fill the last packed byte never complete a code:
\* decode emits as many symbols as the input has, and what is left in the
\* window at the end of the stream is exactly the fill.
C3_PaddingNotDecoded ==
    HasStream => /\ Len(Unpacked.result) = Len(buff)
                 /\ Unpacked.window = Zeros(8 * Len(stream) - Len(bits))

\* C4: in the encode table no symbol's code is a prefix of another symbol's
\* code (so no two symbols share a code), and no code is empty when the
\* table has two or more entries.
C4_PrefixFree ==
    /\ \A s, t \in DOMAIN codes : s # t => ~IsPrefix(codes[s], codes[t])
    /\ Cardinality(DOMAIN codes) >= 2 => \A s \in DOMAIN codes : codes[s] # <<>>

C4_Witness ==
    /\ pc = "codes"
    /\ Cardinality(DOMAIN codes) >= 3
    /\ \E s, t \in DOMAIN codes : Len(codes[s]) < Len(codes[t])

\* C5: for a non-empty input, reading back the code-table file that
\* write_code2file wrote succeeds and gives exactly the inverse of the
\* encode table.
C5_TableRoundTrip ==
    (HasCodeFile /\ buff # <<>>) =>
        /\ generate_code_table_from_file(code_file).kind = "Ok"
        /\ generate_code_table_from_file(code_file).codes = Inverse(codes)

\* A record of the code-table file as C6 describes a well-formed one: exactly
\* one ':', one character before it, only '0' and '1' after it.
WellFormedRecord(raw) ==
    /\ Cardinality({i \in DOMAIN raw : raw[i] = 58}) = 1
    /\ from_utf8(SubSeq(raw, 1, Find(raw, 58) - 1)).ok
    /\ Len(from_utf8(SubSeq(raw, 1, Find(raw, 58) - 1)).chars) = 1
    /\ \A i \in (Find(raw, 58) + 1)..Len(raw) : raw[i] \in {48, 49}

Malformed(bytes) == \E i \in 1..Len(lines(bytes)) : ~WellFormedRecord(lines(bytes)[i])

\* C6: a decompress run over a code-table file with a malformed record gets
\* no decode table and fails, and never opens the output file.  (A panic is
\* counted as a failure of the run here, like a returned error.)
C6_MalformedRejected ==
    Malformed(code_file) =>
        /\ pc \notin {"table", "decoded", "done"}
        /\ ~output.opened
        /\ codes = EmptyMap

\* C7: for an input that repeats one byte value s, the run does not fail,
\* the encode table is exactly {s -> one bit}, and packing then decoding
\* gives the input back.
C7_SingleSymbol ==
    (buff # <<>> /\ Cardinality(Range(buff)) = 1) =>
        /\ pc # "failed"
        /\ HasCodes => /\ DOMAIN codes = Range(buff)
                       /\ \A s \in DOMAIN codes : Len(codes[s]) = 1
        /\ HasStream => Unpacked.result = buff

\* C8, as claimed: the tree create_huffman_tree returns is strict, has at
\* least 2 leaves, exactly one of them the zero-weight placeholder, and has
\* one leaf more than there are distinct symbols - for every frequency
\* table, the empty one included.
C8_TreeShape ==
    pc = "tree" =>
        /\ IsStrict(root[1])
        /\ LeafCount(root[1]) >= 2
        /\ PlaceholderCount(root[1]) = 1
        /\ LeafCount(root[1]) = Cardinality(DOMAIN freq) + 1

\* C8, amended: as claimed, except that the tree has at least 2 leaves only
\* for a non-empty frequency table; for the empty table it is the
\* placeholder leaf alone.
C8_TreeShapeAmended ==
    pc = "tree" =>
        /\ IsStrict(root[1])
        /\ freq # EmptyMap => LeafCount(root[1]) >= 2
        /\ freq = EmptyMap => root[1] = HuffmanTree_new(Inner_new(0, 0))
        /\ PlaceholderCount(root[1]) = 1
        /\ LeafCount(root[1]) = Cardinality(DOMAIN freq) + 1

C8_Witness ==
    /\ pc = "tree"
    /\ LeafCount(root[1]) >= 4
    /\ \E i \in DOMAIN buff : freq[buff[i]] >= 2

\* Merges done so far: the internal nodes of the forest.
RECURSIVE MergesIn(_)
MergesIn(ts) == IF ts = <<>> THEN 0 ELSE InternalCount(Head(ts)) + MergesIn(Tail(ts))

\* C9, the state of the loop: at the start of an iteration the forest is
\* ordered by non-increasing weight, is not empty (so the loop can merge or
\* return), and has one tree less per merge done; the tree returned is the
\* only one left, took one merge per distinct symbol, and weighs the length
\* of the input.
C9_LoopState ==
    /\ pc = "loop" => /\ trees # <<>>
                      /\ SortedByWeight(trees)
                      /\ Len(trees) + MergesIn(trees) = Cardinality(DOMAIN freq) + 1
    /\ pc = "tree" => /\ trees = <<>>
                      /\ InternalCount(root[1]) = Cardinality(DOMAIN freq)
                      /\ root[1].inner.weight = Len(buff)

\* C9, one iteration: the two trees removed are the last two, no tree of
\* the forest weighs less than either, and the forest gets one tree in
\* their place: a node of their summed weight with the first removed as its
\* left and the second as its right child.
C9_Iteration ==
    (pc = "loop" /\ pc' = "loop") =>
        /\ Len(trees) >= 2
        /\ Len(trees') = Len(trees) - 1
        /\ LET tree1 == trees[Len(trees)]
               tree2 == trees[Len(trees) - 1]
           IN /\ \A i \in 1..Len(trees) : trees[i].inner.weight >= tree1.inner.weight
              /\ \A i \in 1..(Len(trees) - 1) : trees[i].inner.weight >= tree2.inner.weight
              /\ \E j \in DOMAIN trees' :
                    /\ trees'[j].inner.weight = tree1.inner.weight + tree2.inner.weight
                    /\ trees'[j].left_child = <<tree1>>
                    /\ trees'[j].right_child = <<tree2>>
                    /\ \A i \in 1..(Len(trees) - 2) :
                          trees[i] = trees'[IF i < j THEN i ELSE i + 1]

\* C9: the greedy merge loop of create_huffman_tree keeps the forest
\* ordered, merges the two lightest trees in each iteration, which shortens
\* the forest by one, and terminates: it returns one tree after one merge
\* per distinct symbol, whose weight is the length of the input.
C9_GreedyMerge ==
    /\ []C9_LoopState
    /\ [][C9_Iteration]_vars
    /\ (pc = "loop") ~> (pc = "tree")

C9_Witness ==
    /\ pc = "tree"
    /\ InternalCount(root[1]) = 3
    /\ root[1].inner.weight = 4

\* C10: packing a sequence of code bits never overflows a byte and gives
\* ceil(L/8) bytes, and the d2b expansion of these bytes is the sequence
\* followed by fewer than 8 zero bits.
C10_PackUnpack ==
    /\ err # "overflow"
    /\ pc \in {"packed", "expanded"} =>
          /\ Len(stream) = CeilDiv8(Len(bits))
          /\ \A i \in DOMAIN stream : stream[i] \in 0..255
    /\ pc = "expanded" =>
          /\ 8 * Len(stream) - Len(bits) < 8
          /\ buff = bits \o Zeros(8 * Len(stream) - Len(bits))

C10_Witness ==
    /\ pc = "expanded"
    /\ Len(bits) = 9
    /\ bits[8] = 1
    /\ bits[9] = 1
    /\ Len(stream) = 2

====
